---- MODULE Spec2Model ----
(***************************************************************************)
(* Model of wg-clients (src/main.rs): a single sequential run of main().   *)
(* Text is modelled as sequences of string fragments, so that              *)
(* str::replace, format! and path construction are computed, not assumed.  *)
(***************************************************************************)
EXTENDS Integers, Sequences, FiniteSets, TLC

VARIABLES
    pc,              \* position of main()
    has_arg,         \* args.len() >= 2
    input_file,      \* the file named by args[1]
    config_data,     \* the text read from it
    config,          \* the parsed Config (mutated by the key-fill loop)
    fs,              \* the output location: directory state and files
    fs0,             \* fs at process start (history)
    idx,             \* position of the current for loop in config.client
    config_content,  \* local of the render loop body
    generated,       \* indices for which generate_private_key was called (history)
    conf_res,        \* outcome of fs::write of each profile, in order (history)
    qr_res,          \* outcome of generate_qr_code_png for each client (history)
    manifest_res,    \* outcomes of the manifest write (history)
    attempts,        \* paths handed to fs::write / image.save, in order (history)
    stderr           \* messages printed with eprintln! / by the panic handler

vars == <<pc, has_arg, input_file, config_data, config, fs, fs0, idx,
          config_content, generated, conf_res, qr_res, manifest_res, attempts,
          stderr>>

----------------------------------------------------------------------------
(* Bounds of the model *)

\* longest client list in the input
MaxClients == 2
\* longest subnet template, in pieces, explored by SubstSpec
MaxPieces == 2

----------------------------------------------------------------------------
(* Data model *)

\* Option<String>
None == <<>>
Some(v) == <<v>>

\* the literal placeholder of line 42
Placeholder == <<"{", "a", "d", "d", "r", "e", "s", "s", "}">>

\* let output_dir = "wg-clients"
output_dir == <<"wg-clients">>

\* A JSON value of the input or of the manifest: a string, null, or no member.
JStr(v) == [t |-> "str", v |-> v]
JNull == [t |-> "null", v |-> <<>>]
JAbsent == [t |-> "absent", v |-> <<>>]

\* struct ServerConfig
ServerConfig(subnet) ==
    [host |-> <<"vpn.example.com">>, port |-> <<"51820">>, dns |-> <<"1.1.1.1">>,
     subnet |-> subnet, public_key |-> <<"SERVERPUBKEY">>]

\* struct ClientConfig
ClientConfig(name, private_key, address) ==
    [name |-> name, private_key |-> private_key, address |-> address]

\* struct Config
Config(server, client) == [server |-> server, client |-> client]

NoServer == ServerConfig(<<>>)
NoConfig == Config(NoServer, <<>>)

----------------------------------------------------------------------------
(* serde: Deserialize / Serialize *)

\* a required String member
StringOk(j) == j.t = "str"

\* variant: null read as the empty string
OptionOfNullAsEmpty(j) == IF j.t = "absent" THEN None ELSE Some(j.v)

\* an Option<String> member: missing and null both give None
OptionOf(j) == IF j.t = "str" THEN Some(j.v) ELSE None

ClientOk(o) == StringOk(o.name) /\ StringOk(o.address)

\* variant: members default when missing
ParseOkLenient(data) == data.wellformed

\* serde_json::from_str::<Config>
ParseOk(data) ==
    /\ data.wellformed
    /\ \A i \in 1..Len(data.doc.client) : ClientOk(data.doc.client[i])

ParseClient(o) == ClientConfig(o.name.v, OptionOf(o.private_key), o.address.v)

Parse(data) ==
    Config(data.doc.server,
           [i \in 1..Len(data.doc.client) |-> ParseClient(data.doc.client[i])])

\* #[serde(skip_serializing_if = "Option::is_none")]
SerializeOption(p) == IF p = None THEN JAbsent ELSE JStr(p[1])

SerializeClient(c) ==
    [name |-> JStr(c.name), private_key |-> SerializeOption(c.private_key),
     address |-> JStr(c.address)]

\* serde_json::to_string_pretty(&config)
Serialize(c) ==
    [server |-> c.server,
     client |-> [i \in 1..Len(c.client) |-> SerializeClient(c.client[i])]]

----------------------------------------------------------------------------
(* Pure functions of main.rs *)

\* generate_private_key: 32 random bytes, base64-encoded
generate_private_key(bytes) == <<"base64(" \o bytes \o ")">>

\* variant: str::replacen(from, to, 1)
RECURSIVE replace_first(_, _, _)
replace_first(s, from, to) ==
    IF Len(s) < Len(from) THEN s
    ELSE IF SubSeq(s, 1, Len(from)) = from
         THEN to \o SubSeq(s, Len(from) + 1, Len(s))
         ELSE <<Head(s)>> \o replace_first(Tail(s), from, to)

\* str::replace: every non-overlapping match, left to right, no rescan
RECURSIVE replace(_, _, _)
replace(s, from, to) ==
    IF Len(s) < Len(from) THEN s
    ELSE IF SubSeq(s, 1, Len(from)) = from
         THEN to \o replace(SubSeq(s, Len(from) + 1, Len(s)), from, to)
         ELSE <<Head(s)>> \o replace(Tail(s), from, to)

\* let address = server.subnet.replace("{address}", &client.address)
resolved_address(client, server) ==
    replace(server.subnet, Placeholder, client.address)

\* the format! of generate_client_config
profile_text(private_key, address, server) ==
    <<"[Interface]\nPrivateKey = ">> \o private_key
    \o <<"\nAddress = ">> \o address
    \o <<"\nDNS = ">> \o server.dns
    \o <<"\n\n[Peer]\nPublicKey = ">> \o server.public_key
    \o <<"\nEndpoint = ">> \o server.host \o <<":">> \o server.port
    \o <<"\nAllowedIPs = 0.0.0.0/0\nPersistentKeepalive = 25\n">>

\* generate_client_config: panics when the key is None
generate_client_config(client, server) ==
    IF client.private_key = None
    THEN [panicked |-> TRUE, text |-> <<>>]
    ELSE [panicked |-> FALSE,
          text |-> profile_text(client.private_key[1],
                                resolved_address(client, server), server)]

\* format!("{}/{}.conf", output_dir, client.name)
config_filename(name) == output_dir \o <<"/">> \o name \o <<".conf">>
\* format!("{}/{}_qr.png", output_dir, client.name)
qr_code_filename(name) == output_dir \o <<"/">> \o name \o <<"_qr.png">>
\* format!("{}/updated_config.json", output_dir)
updated_config_path == output_dir \o <<"/">> \o <<"updated_config.json">>

----------------------------------------------------------------------------
(* Files *)

NoDoc == [server |-> NoServer, client |-> <<>>]

NoFile == [kind |-> "none", text |-> <<>>, json |-> NoDoc]
\* what a failed write may leave behind: the file created, nothing written
EmptyFile == [kind |-> "empty", text |-> <<>>, json |-> NoDoc]
TextFile(text) == [kind |-> "text", text |-> text, json |-> NoDoc]
\* QrCode::new(bytes).render().save(path): an image carrying the payload
PngFile(payload) == [kind |-> "png", text |-> <<"PNG">> \o payload, json |-> NoDoc]
JsonFile(doc) == [kind |-> "json", text |-> <<>>, json |-> doc]

\* what a reader of the image decodes
QrPayload(f) == Tail(f.text)

\* fs::write(path, contents): Ok, or Err leaving the file as it was, or Err
\* after the file was created and truncated
WriteOutcomes == {"ok", "err", "err_trunc"}

\* variant: OpenOptions::create_new, an existing file is left alone
write_noclobber(f, path, file, out) ==
    IF out = "ok" /\ f.files[path].kind = "none"
    THEN [f EXCEPT !.files[path] = file]
    ELSE f

write(f, path, file, out) ==
    CASE out = "ok" -> [f EXCEPT !.files[path] = file]
      [] out = "err" -> f
      [] out = "err_trunc" -> [f EXCEPT !.files[path] = EmptyFile]

\* generate_qr_code_png: QrCode::new(..).unwrap(), then image.save(..).unwrap()
QrOutcomes == {"ok", "encode_err", "save_err", "save_err_trunc"}

\* variant: the arguments swapped, the image carries the path
generate_qr_code_png_swapped(f, content, path, out) ==
    IF out = "ok" THEN [f EXCEPT !.files[path] = PngFile(path)] ELSE f

generate_qr_code_png(f, content, path, out) ==
    CASE out = "ok" -> [f EXCEPT !.files[path] = PngFile(content)]
      [] out = "encode_err" -> f
      [] out = "save_err" -> f
      [] out = "save_err_trunc" -> [f EXCEPT !.files[path] = EmptyFile]

Result(out) == IF out = "ok" THEN "ok" ELSE "err"

----------------------------------------------------------------------------
(* Inputs *)

Alice == <<"alice">>
Bob == <<"bob">>
Names == {Alice, Bob}

Paths == {config_filename(n) : n \in Names} \cup {qr_code_filename(n) : n \in Names}
         \cup {updated_config_path}

\* the entropy source's possible outputs
RandomBytes == {"r1", "r2"}

ClientObj(name, private_key, address) ==
    [name |-> name, private_key |-> private_key, address |-> address]

\* client objects of the input file: key omitted, given, empty, null; and an
\* object without address, which serde rejects
MainObjs ==
    { ClientObj(JStr(Alice), JAbsent, JStr(<<"5">>)),
      ClientObj(JStr(Alice), JStr(<<"K1">>), JStr(<<"7">>)),
      ClientObj(JStr(Bob), JStr(<<>>), JStr(<<"5">>)),
      ClientObj(JStr(Bob), JNull, JStr(<<"7">>)),
      ClientObj(JStr(Bob), JAbsent, JAbsent) }

MainSubnets == { <<"10.0.0.">> \o Placeholder \o <<"/24">> }

SeqsUpTo(S, n) == UNION {[1..k -> S] : k \in 0..n}

\* pieces a subnet template is put together from
Pieces ==
    { Placeholder, <<"{">>, <<"}">>, <<"x">>, <<"{", "a", "d", "d", "r">> }

RECURSIVE Concat(_)
Concat(ss) == IF ss = <<>> THEN <<>> ELSE Head(ss) \o Concat(Tail(ss))

SubstSubnets == {Concat(ps) : ps \in SeqsUpTo(Pieces, MaxPieces)}

SubstObjs ==
    { ClientObj(JStr(Alice), JStr(<<"K1">>), JStr(<<"7">>)),
      ClientObj(JStr(Alice), JStr(<<"K1">>), JStr(<<>>)),
      ClientObj(JStr(Bob), JAbsent, JStr(<<"1", "2">>)),
      ClientObj(JStr(Bob), JAbsent, JAbsent) }

Garbage == [wellformed |-> FALSE, doc |-> NoDoc]
NoData == Garbage

Docs(subnets, lists) ==
    {[wellformed |-> TRUE, doc |-> [server |-> ServerConfig(s), client |-> cs]] :
        s \in subnets, cs \in lists}

InputFiles(subnets, lists) ==
    {[readable |-> FALSE, data |-> Garbage], [readable |-> TRUE, data |-> Garbage]}
    \cup {[readable |-> TRUE, data |-> d] : d \in Docs(subnets, lists)}

StaleText == <<"stale">>

StaleFile(path) ==
    IF path = updated_config_path THEN JsonFile(NoDoc)
    ELSE IF path \in {qr_code_filename(n) : n \in Names} THEN PngFile(StaleText)
    ELSE TextFile(StaleText)

\* the output location before the run: no directory, an empty directory, a
\* directory holding the files of an earlier run
PriorFs ==
    { [dir |-> "absent", files |-> [p \in Paths |-> NoFile]],
      [dir |-> "dir", files |-> [p \in Paths |-> NoFile]],
      [dir |-> "dir", files |-> [p \in Paths |-> StaleFile(p)]] }

----------------------------------------------------------------------------
(* The run *)

InitOver(subnets, lists) ==
    /\ pc = "args"
    /\ has_arg \in BOOLEAN
    /\ input_file \in InputFiles(subnets, lists)
    /\ config_data = NoData
    /\ config = NoConfig
    /\ fs \in PriorFs
    /\ fs0 = fs
    /\ idx = 0
    /\ config_content = <<>>
    /\ generated = {}
    /\ conf_res = <<>>
    /\ qr_res = <<>>
    /\ manifest_res = <<>>
    /\ attempts = <<>>
    /\ stderr = <<>>

Init == InitOver(MainSubnets, SeqsUpTo(MainObjs, MaxClients))

SubstInit == InitOver(SubstSubnets, SeqsUpTo(SubstObjs, 1))

\* lines 74-80
CheckArgs ==
    /\ pc = "args"
    /\ IF ~has_arg
       THEN /\ pc' = "exit_usage"
            /\ stderr' = Append(stderr, <<"Usage">>)
       ELSE /\ pc' = "read"
            /\ UNCHANGED stderr
    /\ UNCHANGED <<attempts, has_arg, input_file, config_data, config, fs, fs0, idx,
                   config_content, generated, conf_res, qr_res, manifest_res>>

\* lines 85-91
ReadConfig ==
    /\ pc = "read"
    /\ IF input_file.readable
       THEN /\ config_data' = input_file.data
            /\ pc' = "parse"
            /\ UNCHANGED stderr
       ELSE /\ pc' = "exit_read"
            /\ stderr' = Append(stderr, <<"Failed to read config file">>)
            /\ UNCHANGED config_data
    /\ UNCHANGED <<attempts, has_arg, input_file, config, fs, fs0, idx,
                   config_content, generated, conf_res, qr_res, manifest_res>>

\* lines 94-100
ParseConfig ==
    /\ pc = "parse"
    /\ IF ParseOk(config_data)
       THEN /\ config' = Parse(config_data)
            /\ pc' = "mkdir"
            /\ UNCHANGED stderr
       ELSE /\ pc' = "exit_parse"
            /\ stderr' = Append(stderr, <<"Failed to parse config file">>)
            /\ UNCHANGED config
    /\ UNCHANGED <<attempts, has_arg, input_file, config_data, fs, fs0, idx,
                   config_content, generated, conf_res, qr_res, manifest_res>>

\* lines 106-111
CreateOutputDir ==
    /\ pc = "mkdir"
    /\ IF fs.dir # "absent"
       THEN /\ pc' = "keyfill"
            /\ idx' = 1
            /\ UNCHANGED <<fs, stderr>>
       ELSE \E ok \in BOOLEAN :
              IF ok
              THEN /\ fs' = [fs EXCEPT !.dir = "dir"]
                   /\ pc' = "keyfill"
                   /\ idx' = 1
                   /\ UNCHANGED stderr
              ELSE /\ pc' = "exit_mkdir"
                   /\ stderr' = Append(stderr, <<"Failed to create output directory">>)
                   /\ UNCHANGED <<fs, idx>>
    /\ UNCHANGED <<attempts, has_arg, input_file, config_data, config, fs0,
                   config_content, generated, conf_res, qr_res, manifest_res>>

\* variant: the test dropped, every client gets a fresh key
needs_key_always(client) == TRUE

\* variant: the loops stop one client short
loop_done_early(i, n) == i >= n

\* for client in ...: the iteration is over
loop_done(i, n) == i > n

\* if client.private_key.is_none()
needs_key(client) == client.private_key = None

\* variant: the key lands on the first client
set_key_first(c, i, key) == [c EXCEPT !.client[1].private_key = Some(key)]

\* client.private_key = Some(generate_private_key())
set_key(c, i, key) == [c EXCEPT !.client[i].private_key = Some(key)]

\* lines 114-119: one iteration of the key-fill loop, or its exit
FillKey ==
    /\ pc = "keyfill"
    /\ IF loop_done(idx, Len(config.client))
       THEN /\ pc' = "render"
            /\ idx' = 1
            /\ UNCHANGED <<config, generated>>
       ELSE /\ IF needs_key(config.client[idx])
               THEN \E b \in RandomBytes :
                      /\ config' = set_key(config, idx, generate_private_key(b))
                      /\ generated' = generated \cup {idx}
               ELSE UNCHANGED <<config, generated>>
            /\ idx' = idx + 1
            /\ UNCHANGED pc
    /\ UNCHANGED <<attempts, has_arg, input_file, config_data, fs, fs0,
                   config_content, conf_res, qr_res, manifest_res, stderr>>

\* lines 122-124: the head of the render loop and the rendering of one client
RenderClient ==
    /\ pc = "render"
    /\ IF loop_done(idx, Len(config.client))
       THEN /\ pc' = "manifest"
            /\ UNCHANGED <<config_content, stderr>>
       ELSE LET r == generate_client_config(config.client[idx], config.server)
            IN  IF r.panicked
                THEN /\ pc' = "panicked"
                     /\ stderr' = Append(stderr, <<"Private key not provided for client ">>
                                                 \o config.client[idx].name)
                     /\ UNCHANGED config_content
                ELSE /\ config_content' = r.text
                     /\ pc' = "write_conf"
                     /\ UNCHANGED stderr
    /\ UNCHANGED <<attempts, has_arg, input_file, config_data, config, fs, fs0, idx,
                   generated, conf_res, qr_res, manifest_res>>

\* variant: fs::write(..).unwrap()
after_conf_unwrap(out) == IF out = "ok" THEN "write_qr" ELSE "panicked"

\* what follows the profile write: the Err arm only prints
after_conf(out) == "write_qr"

\* lines 127-131
WriteConf ==
    /\ pc = "write_conf"
    /\ \E out \in WriteOutcomes :
         /\ fs' = write(fs, config_filename(config.client[idx].name),
                        TextFile(config_content), out)
         /\ conf_res' = Append(conf_res, Result(out))
         /\ attempts' = Append(attempts, config_filename(config.client[idx].name))
         /\ stderr' = IF out = "ok" THEN stderr
                      ELSE Append(stderr, <<"Failed to write configuration for ">>
                                          \o config.client[idx].name)
         /\ pc' = after_conf(out)
    /\ UNCHANGED <<has_arg, input_file, config_data, config, fs0, idx,
                   config_content, generated, qr_res, manifest_res>>

\* what follows generate_qr_code_png: the next client, or the unwinding of a panic
after_qr(out) == IF out = "ok" THEN "render" ELSE "panicked"

\* lines 134-136
WriteQr ==
    /\ pc = "write_qr"
    /\ \E out \in QrOutcomes :
         /\ fs' = generate_qr_code_png(fs, config_content,
                                       qr_code_filename(config.client[idx].name), out)
         /\ qr_res' = Append(qr_res, Result(out))
         /\ attempts' = IF out = "encode_err" THEN attempts
                        ELSE Append(attempts, qr_code_filename(config.client[idx].name))
         /\ pc' = after_qr(out)
         /\ idx' = IF after_qr(out) = "render" THEN idx + 1 ELSE idx
         /\ stderr' = IF out = "ok" THEN stderr
                      ELSE Append(stderr, <<"called Result::unwrap() on an Err value">>)
    /\ UNCHANGED <<has_arg, input_file, config_data, config, fs0,
                   config_content, generated, conf_res, manifest_res>>

\* lines 140-145
WriteManifest ==
    /\ pc = "manifest"
    /\ \E out \in WriteOutcomes :
         /\ fs' = write(fs, updated_config_path, JsonFile(Serialize(config)), out)
         /\ manifest_res' = Append(manifest_res, Result(out))
         /\ attempts' = Append(attempts, updated_config_path)
         /\ stderr' = IF out = "ok" THEN stderr
                      ELSE Append(stderr, <<"Failed to save updated config file">>)
    /\ pc' = "done"
    /\ UNCHANGED <<has_arg, input_file, config_data, config, fs0, idx,
                   config_content, generated, conf_res, qr_res>>

Next ==
    \/ CheckArgs
    \/ ReadConfig
    \/ ParseConfig
    \/ CreateOutputDir
    \/ FillKey
    \/ RenderClient
    \/ WriteConf
    \/ WriteQr
    \/ WriteManifest

Spec == Init /\ [][Next]_vars

\* the same program over many subnet templates and addresses
SubstSpec == SubstInit /\ [][Next]_vars

\* a sequential process keeps running until main returns or panics
FairSpec == Spec /\ WF_vars(Next)

TypeOK ==
    /\ pc \in {"args", "read", "parse", "mkdir", "keyfill", "render", "write_conf",
               "write_qr", "manifest", "done", "exit_usage", "exit_read",
               "exit_parse", "exit_mkdir", "panicked"}
    /\ idx \in 0..(Len(config.client) + 1)
    /\ fs.dir \in {"absent", "dir"}
    /\ DOMAIN fs.files = Paths

----------------------------------------------------------------------------
(* Phases of the run, read off the position of main() *)

EarlyExits == {"exit_usage", "exit_read", "exit_parse"}
Running == {"args", "read", "parse", "mkdir", "keyfill", "render", "write_conf",
            "write_qr", "manifest"}
\* main has returned or unwound
Terminated == pc \notin Running
\* the input was read and parsed
Loaded == pc \notin ({"args", "read", "parse"} \cup EarlyExits)
\* the key-fill loop has been left
KeysFilled == Loaded /\ pc \notin {"mkdir", "exit_mkdir", "keyfill"}

\* the client objects of the input file
InputClients == input_file.data.doc.client
\* the profile of client i, rendered from the model
Rendered(i) == generate_client_config(config.client[i], config.server).text
\* the manifest as a reader of updated_config.json finds it
Manifest == fs.files[updated_config_path].json
ManifestWritten == manifest_res = <<"ok">>

Last(s) == s[Len(s)]

----------------------------------------------------------------------------
(* C1 *)

\* C1: a private_key given in the input is, after the key-fill pass, the
\* client's private_key in the model and, once written, in the manifest; a
\* key is generated only for clients that have none (omitted or null).
C1_SuppliedKeysKept ==
    KeysFilled =>
        \A i \in 1..Len(config.client) :
            LET j == InputClients[i].private_key
            IN  /\ j.t = "str" => config.client[i].private_key = Some(j.v)
                /\ i \in generated => j.t # "str"
                /\ (ManifestWritten /\ j.t = "str") =>
                       /\ Len(Manifest.client) >= i
                       /\ Manifest.client[i].private_key = JStr(j.v)

C1_Witness ==
    /\ pc = "done"
    /\ ManifestWritten
    /\ generated # {}
    /\ \E i \in 1..Len(config.client) :
           /\ InputClients[i].private_key = JStr(<<"K1">>)
           /\ Manifest.client[i].private_key = JStr(<<"K1">>)

----------------------------------------------------------------------------
(* C2 *)

KeyPresent(c) == c.private_key # None
KeyNonEmpty(c) == KeyPresent(c) /\ c.private_key[1] # <<>>

\* C2 as stated: from the end of the key-fill pass on, every client has a
\* private key that is present and non-empty.
C2_KeysNonEmpty ==
    KeysFilled => \A i \in 1..Len(config.client) : KeyNonEmpty(config.client[i])

\* C2 amended: from the end of the key-fill pass on, every client has a
\* private key; it is non-empty unless the input gave the empty string.
C2_KeysPresent ==
    KeysFilled =>
        \A i \in 1..Len(config.client) :
            /\ KeyPresent(config.client[i])
            /\ KeyNonEmpty(config.client[i])
                   \/ InputClients[i].private_key = JStr(<<>>)

C2_Witness ==
    /\ pc = "done"
    /\ \E i, k \in 1..Len(config.client) :
           /\ InputClients[i].private_key = JNull
           /\ KeyNonEmpty(config.client[i])
           /\ InputClients[k].private_key = JStr(<<>>)
           /\ config.client[k].private_key = Some(<<>>)

----------------------------------------------------------------------------
(* C6 *)

\* content that is no JSON, or JSON that lacks a required member
Unparseable(data) ==
    \/ ~data.wellformed
    \/ \E i \in 1..Len(data.doc.client) :
           data.doc.client[i].name.t # "str" \/ data.doc.client[i].address.t # "str"

BadInput == ~has_arg \/ ~input_file.readable \/ Unparseable(input_file.data)

\* C6: without an argument, a readable file or a parseable content, the run
\* reports the error and stops with the output location untouched: no
\* directory created, no key generated, no file write attempted.
C6_FatalInputLeavesNoTrace ==
    BadInput =>
        /\ ~Loaded
        /\ fs = fs0
        /\ generated = {}
        /\ attempts = <<>>
        /\ Terminated => pc \in EarlyExits /\ Len(stderr) = 1

C6_Witness ==
    /\ pc = "exit_parse"
    /\ input_file.data.wellformed
    /\ fs0.dir = "absent"
    /\ fs = fs0

----------------------------------------------------------------------------
(* C10 *)

\* C10: after load the server, the number and order of the clients and their
\* names and addresses never change; the only change is a private_key set
\* where there was none; files are written, and the manifest lists the
\* clients, in input order.
C10_ModelFrame ==
    Loaded =>
        LET parsed == Parse(input_file.data)
            n == Len(parsed.client)
        IN  /\ config.server = parsed.server
            /\ Len(config.client) = n
            /\ \A i \in 1..n :
                   /\ config.client[i].name = parsed.client[i].name
                   /\ config.client[i].address = parsed.client[i].address
                   /\ \/ config.client[i].private_key = parsed.client[i].private_key
                      \/ parsed.client[i].private_key = None /\ i \in generated
            /\ \A k \in 1..Len(conf_res) :
                   attempts[2 * k - 1] = config_filename(parsed.client[k].name)
            /\ \A k \in 1..Len(qr_res) :
                   Len(attempts) >= 2 * k =>
                       attempts[2 * k] = qr_code_filename(parsed.client[k].name)
            /\ ManifestWritten =>
                   /\ Len(Manifest.client) = n
                   /\ \A i \in 1..n :
                          /\ Manifest.client[i].name = InputClients[i].name
                          /\ Manifest.client[i].address = InputClients[i].address

C10_Witness ==
    /\ pc = "done"
    /\ ManifestWritten
    /\ generated # {}
    /\ Len(config.client) = 2
    /\ config.client[1].name # config.client[2].name
    /\ config.client[1].private_key = Some(<<"K1">>)
    /\ Len(attempts) = 5

----------------------------------------------------------------------------
(* C3 *)

AllAttempted ==
    /\ Len(conf_res) = Len(config.client)
    /\ Len(qr_res) = Len(config.client)

SomeWriteFailed ==
    \/ \E i \in 1..Len(conf_res) : conf_res[i] = "err"
    \/ \E i \in 1..Len(qr_res) : qr_res[i] = "err"

\* C3: when the write of a client's profile or image fails (encoding
\* included), the failure is reported and the run goes on: once the run has
\* ended, every client was rendered and had both writes attempted.
C3_WriteFailureDoesNotAbort ==
    (Terminated /\ SomeWriteFailed) =>
        /\ pc = "done"
        /\ AllAttempted
        /\ stderr # <<>>

----------------------------------------------------------------------------
(* C4 *)

\* C4 as stated: a run that reached Loaded ends in Done with the manifest
\* write attempted, whatever fails on the way.
C4_LoadedRunsReachDone ==
    (Loaded /\ Terminated) => (pc = "done" /\ manifest_res # <<>>)

C4_Ends ==
    \/ /\ pc = "done"
       /\ Len(manifest_res) = 1
       /\ AllAttempted
    \/ /\ pc = "exit_mkdir"
       /\ fs0.dir = "absent"
       /\ manifest_res = <<>>
    \/ /\ pc = "panicked"
       /\ qr_res # <<>>
       /\ Last(qr_res) = "err"
       /\ manifest_res = <<>>

\* C4 amended: a run that reached Loaded always ends. It ends in Done with
\* the manifest write attempted once, whichever profile writes fail and
\* whether or not the manifest write fails, unless the output directory
\* cannot be created (the run returns before the key-fill pass) or an image
\* cannot be encoded or saved (the run panics at that client).
C4_LoadedRunsEnd ==
    /\ [](Loaded /\ Terminated => C4_Ends)
    /\ [](pc = "exit_mkdir" => Last(stderr) = <<"Failed to create output directory">>)
    /\ (pc = "mkdir") ~> Terminated
    /\ (pc = "mkdir" /\ fs.dir = "dir") ~> (pc \in {"done", "panicked"})

C4_Witness ==
    /\ pc = "done"
    /\ manifest_res = <<"err">>
    /\ \E i \in 1..Len(conf_res) : conf_res[i] = "err"
    /\ Len(config.client) = MaxClients

----------------------------------------------------------------------------
(* C7 *)

NameOf(i) == config.client[i].name

\* C7 as stated: at the end of a run, every image written during the run
\* encodes the bytes of the .conf file of the same name.
C7_ImageMatchesProfileFile ==
    Terminated =>
        \A i \in 1..Len(qr_res) :
            qr_res[i] = "ok" =>
                LET img == fs.files[qr_code_filename(NameOf(i))]
                    conf == fs.files[config_filename(NameOf(i))]
                IN  /\ img.kind = "png"
                    /\ conf.kind = "text"
                    /\ QrPayload(img) = conf.text

\* the last client named n that reached generate_qr_code_png
LastOf(n) ==
    LET S == {i \in 1..Len(qr_res) : NameOf(i) = n}
    IN  CHOOSE i \in S : \A k \in S : k <= i

\* C7 amended: at the end of a run, for every name whose last processed
\* client had its image written, the image encodes that client's rendered
\* profile; it equals the bytes of the .conf file when that client's
\* profile write succeeded too.
C7_ImageMatchesRenderedProfile ==
    Terminated =>
        \A n \in Names :
            (\E i \in 1..Len(qr_res) : NameOf(i) = n) =>
                LET i == LastOf(n)
                    img == fs.files[qr_code_filename(n)]
                    conf == fs.files[config_filename(n)]
                IN  qr_res[i] = "ok" =>
                        /\ img.kind = "png"
                        /\ QrPayload(img) = Rendered(i)
                        /\ conf_res[i] = "ok" =>
                               (conf.kind = "text" /\ conf.text = QrPayload(img))

C7_Witness ==
    /\ pc = "done"
    /\ \E i, k \in 1..Len(qr_res) :
           /\ NameOf(i) # NameOf(k)
           /\ conf_res[i] = "err" /\ qr_res[i] = "ok"
           /\ conf_res[k] = "ok" /\ qr_res[k] = "ok"
           /\ fs.files[config_filename(NameOf(i))].kind # "text"
           /\ fs.files[config_filename(NameOf(k))].text
                  = QrPayload(fs.files[qr_code_filename(NameOf(k))])

----------------------------------------------------------------------------
(* C8 *)

AllWritesOk ==
    /\ \A i \in 1..Len(conf_res) : conf_res[i] = "ok"
    /\ \A i \in 1..Len(qr_res) : qr_res[i] = "ok"
    /\ ManifestWritten

Shared(n) == Cardinality({i \in 1..Len(config.client) : NameOf(i) = n}) >= 2

\* C8: when clients share a name and every write succeeds, nothing is
\* reported, <name>.conf and <name>_qr.png hold the profile of the last such
\* client, and the manifest has one entry per client.
C8_LastDuplicateWins ==
    (pc = "done" /\ AllWritesOk) =>
        \A n \in Names :
            Shared(n) =>
                LET i == LastOf(n)
                IN  /\ stderr = <<>>
                    /\ fs.files[config_filename(n)] = TextFile(Rendered(i))
                    /\ fs.files[qr_code_filename(n)] = PngFile(Rendered(i))
                    /\ Len(Manifest.client) = Len(InputClients)
                    /\ \A k \in 1..Len(InputClients) :
                           /\ Manifest.client[k].name = InputClients[k].name
                           /\ Manifest.client[k].address = InputClients[k].address
                           /\ Manifest.client[k].private_key.t = "str"

C8_Witness ==
    /\ pc = "done"
    /\ AllWritesOk
    /\ fs0.dir = "dir"
    /\ fs0.files[config_filename(Alice)].kind = "text"
    /\ Len(config.client) = 2
    /\ NameOf(1) = Alice /\ NameOf(2) = Alice
    /\ Rendered(1) # Rendered(2)
    /\ fs.files[config_filename(Alice)].text = Rendered(2)

----------------------------------------------------------------------------
(* C9 *)

\* what holds of the phases in either reading of C9: the key-fill pass is
\* complete before the first render, nothing is rendered or written before
\* it, and the manifest is written at most once, last, after every client
\* was attempted
C9_Order ==
    /\ ~Loaded => generated = {}
    /\ ~KeysFilled => attempts = <<>> /\ conf_res = <<>> /\ qr_res = <<>>
    /\ KeysFilled =>
           /\ \A i \in 1..Len(config.client) : KeyPresent(config.client[i])
           /\ generated = {i \in 1..Len(config.client) :
                               InputClients[i].private_key.t # "str"}
    /\ pc \in Running => manifest_res = <<>>
    /\ Len(manifest_res) <= 1
    /\ manifest_res # <<>> =>
           /\ pc = "done"
           /\ AllAttempted
           /\ Last(attempts) = updated_config_path
    /\ pc = "done" => Len(manifest_res) = 1

\* C9 as stated: the phases come in the fixed order and no filesystem effect
\* happens before KeysFilled.
C9_NoEffectBeforeKeysFilled ==
    /\ C9_Order
    /\ ~KeysFilled => fs = fs0

\* C9 amended: the phases come in the fixed order; the one filesystem effect
\* before KeysFilled is the creation of the output directory, right after
\* load; no file is written before KeysFilled.
C9_OnlyDirBeforeKeysFilled ==
    /\ C9_Order
    /\ ~Loaded => fs = fs0
    /\ ~KeysFilled => fs.files = fs0.files
    /\ fs.dir # fs0.dir => (fs0.dir = "absent" /\ fs.dir = "dir")

C9_Witness ==
    /\ pc = "keyfill"
    /\ idx = 1
    /\ fs0.dir = "absent"
    /\ fs.dir = "dir"
    /\ Len(config.client) = MaxClients

----------------------------------------------------------------------------
(* C5 *)

PLen == Len(Placeholder)

\* the positions of a template at which the placeholder stands
Occ(tpl) == {i \in 1..(Len(tpl) - PLen + 1) : SubSeq(tpl, i, i + PLen - 1) = Placeholder}

\* tpl with the placeholder at position i cut out and a put in
Splice(tpl, i, a) == SubSeq(tpl, 1, i - 1) \o a \o SubSeq(tpl, i + PLen, Len(tpl))

\* how far the text at position p of the template has moved in r
Shift(tpl, p, a) == Cardinality({i \in Occ(tpl) : i < p}) * (Len(a) - PLen)

Covered(tpl, p) == \E i \in Occ(tpl) : i <= p /\ p < i + PLen

\* r is tpl with every placeholder replaced by a and nothing else changed
AllReplaced(tpl, a, r) ==
    /\ Len(r) = Len(tpl) + Cardinality(Occ(tpl)) * (Len(a) - PLen)
    /\ \A p \in 1..Len(tpl) :
           ~Covered(tpl, p) => r[p + Shift(tpl, p, a)] = tpl[p]
    /\ \A i \in Occ(tpl) :
           SubSeq(r, i + Shift(tpl, i, a), i + Shift(tpl, i, a) + Len(a) - 1) = a

\* r is tpl with exactly one placeholder replaced by a, or tpl when it has none
OneReplaced(tpl, a, r) ==
    IF Occ(tpl) = {} THEN r = tpl
    ELSE \E i \in Occ(tpl) : r = Splice(tpl, i, a)

\* the client whose profile is in config_content
Current == config.client[idx]

\* the text between "Address = " and the DNS line of a rendered profile: the
\* key is preceded by one fragment, the address by one more and followed by nine
AddressOf(key, text) ==
    SubSeq(text, Len(key) + 3, Len(text) - 9)

\* C5 as stated: the address of the rendered profile is the template with
\* exactly one occurrence of the placeholder replaced.
C5_ExactlyOneReplaced ==
    pc = "write_conf" =>
        OneReplaced(config.server.subnet, Current.address,
                    AddressOf(Current.private_key[1], config_content))

\* C5 amended: the address of the rendered profile is the template with
\* every occurrence of the placeholder replaced by client.address, left to
\* right, and every other character untouched; without an occurrence it is
\* the template.
C5_EveryOccurrenceReplaced ==
    pc = "write_conf" =>
        LET tpl == config.server.subnet
            r == AddressOf(Current.private_key[1], config_content)
        IN  /\ config_content = profile_text(Current.private_key[1], r, config.server)
            /\ AllReplaced(tpl, Current.address, r)
            /\ Occ(tpl) = {} => r = tpl
            /\ Cardinality(Occ(tpl)) = 1 => OneReplaced(tpl, Current.address, r)

C5_Witness ==
    /\ pc = "write_conf"
    /\ Cardinality(Occ(config.server.subnet)) = 2
    /\ Current.address = <<"1", "2">>
    /\ AddressOf(Current.private_key[1], config_content) = <<"1", "2", "1", "2">>

====
